---- MODULE Spec2Model ----
(***************************************************************************)
(* Encrypted state persistence of the multiapp sidecar: the CryptoManager  *)
(* (crypto.rs: Argon2 key derivation with a per-salt cache, AES-256-GCM    *)
(* envelopes) and the AppState store (state.rs: load_state, save_state and *)
(* the mutators that autosave), with the handlers that drive them          *)
(* (events.rs, terminal.rs, server.rs).                                    *)
(*                                                                         *)
(* Byte strings are records.  Random bytes are [t, len, id]; a derived key *)
(* is the term [t = "key", pass, salt] (Argon2 idealised as a collision-   *)
(* free function of passphrase and salt bytes); an AES-GCM output is the   *)
(* term [t = "sealed", key, nonce, pt], which opens only under the same    *)
(* key and nonce (the tag is idealised as unforgeable).  Base64 text is a  *)
(* record of its number of alphabet characters, its number of '=' signs,   *)
(* whether all characters are in the alphabet, and the bytes it spells.    *)
(***************************************************************************)
EXTENDS Integers, Sequences, FiniteSets, TLC

VARIABLES
    crypto,             \* CryptoSpec: the CryptoManager under test
    call,               \* CryptoSpec: the last call on the manager, its result,
                        \* and the key the cache held for its salt before it
    issued,             \* CryptoSpec: envelopes returned by encrypt so far
    proc,               \* "stopped", "running" or "crashed" (panic in setup)
    app,                \* the AppState behind Arc<Mutex<..>>
    file,               \* sidecar_state.json
    creating,           \* create_terminal calls between their two locks
    boot,               \* the last start: passphrase, file found, latest save
                        \* before it, load_state's result
    ret,                \* the last handler called, what it returned, how often
                        \* it called save_state, how many of these calls
                        \* failed, whether it changed the state
    attempted,          \* PersistedState loaded, or handed to the latest save_state
    last_save,          \* the latest save_state call and whether it left the
                        \* file as it found it, kept across restarts
    starts_left,        \* process starts the run of the model still allows
    calls_left,         \* handler calls the run of the model still allows
    lock,               \* LockSpec: the task holding the Mutex<AppState>, or 0
    tasks               \* LockSpec: the handler invocations in flight

(***************************************************************************)
(* Bounds of the model.                                                    *)
(***************************************************************************)
MaxRand == 2            \* distinct outcomes of one OsRng draw
MaxIssued == 2          \* envelopes remembered by the CryptoSpec harness
MaxOps == 1             \* pending_operations entries
MaxNotifs == 3          \* notifications entries
MaxSessions == 2        \* terminal_sessions entries, in-flight ones included
MaxRuns == 2            \* Spec: process starts
MaxCalls == 2           \* Spec: handler calls over all runs
MaxHandlerCalls == 3    \* HandlerSpec: handler calls of its one run
MaxTasks == 2           \* LockSpec: handler invocations in flight at once
MaxLockCalls == 2       \* LockSpec: handler invocations of its one run

(***************************************************************************)
(* Sizes fixed by the program and its libraries.                           *)
(***************************************************************************)
SALT_LEN == 16          \* crypto.rs:85  let mut salt = [0u8; 16]
KEY_LEN == 32           \* crypto.rs:71  [..32], AES-256 key
NONCE_LEN == 12         \* crypto.rs:95  Aes256Gcm nonce (96 bits)
TAG_LEN == 16           \* crypto.rs:98  AES-GCM tag appended to the ciphertext
PHC_SALT_MIN_CHARS == 4     \* crypto.rs:61  password_hash::Salt::MIN_LENGTH
PHC_SALT_MAX_CHARS == 64    \* crypto.rs:61  password_hash::Salt::MAX_LENGTH
ARGON2_MIN_SALT_LEN == 8    \* crypto.rs:66  argon2::MIN_SALT_LEN
FOREIGN_SALT_LEN == SALT_LEN + 2            \* a salt whose base64 has no padding
SHORT_SALT_LEN == ARGON2_MIN_SALT_LEN - 2   \* a salt shorter than Argon2 accepts
SHORT_NONCE_LEN == NONCE_LEN - 4            \* a nonce of the wrong length

(***************************************************************************)
(* Result<T, CryptoError>.  A panic is not a return value: it is the       *)
(* outcome "panic", which no caller can match on.                          *)
(***************************************************************************)
Nil == [t |-> "nil"]
Ok(v) == [ok |-> TRUE, val |-> v, err |-> "none"]
Err(e) == [ok |-> FALSE, val |-> Nil, err |-> e]
Panic == [ok |-> FALSE, val |-> Nil, err |-> "panic"]
IsErrReturn(r) == ~r.ok /\ r.err # "panic"

None == [some |-> FALSE, v |-> ""]
Some(s) == [some |-> TRUE, v |-> s]
Passphrases == {"p1", "p2"}
OptPassphrases == {None} \cup {Some(p) : p \in Passphrases}

(***************************************************************************)
(* Byte strings.  OsRng_bytes(n) is what a draw of n bytes from OsRng can   *)
(* give.                                                                   *)
(***************************************************************************)
Rand == 1..MaxRand
RandBytes(n, i) == [t |-> "rand", len |-> n, id |-> i]
OsRng_bytes(n) == {RandBytes(n, i) : i \in Rand}
Raw(i) == [t |-> "raw", len |-> i, id |-> i]
Payloads == {Raw(i) : i \in 0..MaxRand}

(***************************************************************************)
(* base64::engine::general_purpose::STANDARD.  encode pads the output to a *)
(* multiple of four characters with '='; decode accepts only alphabet      *)
(* characters followed by exactly that canonical padding.                  *)
(***************************************************************************)
StdEncode(b) ==
    [n6 |-> (4 * b.len + 2) \div 3,
     pad |-> (3 - (b.len % 3)) % 3,
     alpha |-> TRUE,
     data |-> b]

StdDecode(text) ==
    IF /\ text.alpha
       /\ text.n6 % 4 # 1
       /\ text.pad = (4 - (text.n6 % 4)) % 4
    THEN Ok(text.data)
    ELSE Err("base64")

\* The same characters with the '=' signs left out (the PHC "B64" form).
Unpadded(text) == [text EXCEPT !.pad = 0]
\* Text holding a character outside the base64 alphabet.
NotBase64(text) == [text EXCEPT !.alpha = FALSE]

(***************************************************************************)
(* password_hash::SaltString::from_b64: 4..64 characters, each of them in  *)
(* [a-zA-Z0-9/+.-].  '=' is not in that set.                               *)
(***************************************************************************)
SaltString_from_b64(text) ==
    IF /\ text.n6 + text.pad >= PHC_SALT_MIN_CHARS
       /\ text.n6 + text.pad <= PHC_SALT_MAX_CHARS
       /\ text.alpha
       /\ text.pad = 0
    THEN Ok(text)
    ELSE Err("SaltInvalid")

(***************************************************************************)
(* Argon2::default().hash_password(passphrase, &salt_string): decodes the  *)
(* salt as unpadded B64, refuses fewer than 8 salt bytes, and returns a    *)
(* 32-byte output, of which derive_key keeps the first 32 bytes.           *)
(***************************************************************************)
Argon2_hash_password(passphrase, salt_string) ==
    IF salt_string.data.len < ARGON2_MIN_SALT_LEN
    THEN Err("SaltTooShort")
    ELSE Ok([t |-> "key", len |-> KEY_LEN, pass |-> passphrase,
             salt |-> salt_string.data])

(***************************************************************************)
(* AES-256-GCM.                                                            *)
(***************************************************************************)
Aes256Gcm_encrypt(key, nonce, data) ==
    [t |-> "sealed", len |-> data.len + TAG_LEN, key |-> key, nonce |-> nonce,
     pt |-> data]

Aes256Gcm_decrypt(key, nonce, ciphertext) ==
    IF /\ ciphertext.t = "sealed"
       /\ ciphertext.key = key
       /\ ciphertext.nonce = nonce
    THEN Ok(ciphertext.pt)
    ELSE Err("aead")

(***************************************************************************)
(* CryptoManager.  A method on &mut self is the set of its possible        *)
(* outcomes [res, self]: the value returned and the manager afterwards.    *)
(* The set has one element unless the method draws random bytes.  The      *)
(* field kdf_runs is not in the struct: it counts the manager's calls of   *)
(* Argon2 hash_password.                                                   *)
(***************************************************************************)
CryptoManager_new(passphrase) ==
    [passphrase |-> passphrase, key_cache |-> << >>, kdf_runs |-> 0]

Ret(r, self) == [res |-> r, self |-> self]

\* An insert into a cache that holds one entry at most.
CacheInsert_evicting(cache, salt, key) ==
    [s \in {salt} |-> key]

CacheInsert(cache, salt, key) ==
    [s \in (DOMAIN cache) \cup {salt} |-> IF s = salt THEN key ELSE cache[s]]

\* What the manager is after a call of hash_password.
KdfRan(self) == [self EXCEPT !.kdf_runs = @ + 1]

\* derive_key without the cache lookup: every call derives.
derive_key_uncached(self, salt) ==
    IF ~self.passphrase.some
    THEN {Ret(Err("InvalidPassphrase"), self)}
    ELSE LET salt_bytes == StdDecode(salt) IN
         IF ~salt_bytes.ok
         THEN {Ret(Err("KeyDerivationFailed"), self)}
         ELSE LET salt_string == SaltString_from_b64(StdEncode(salt_bytes.val)) IN
              IF ~salt_string.ok
              THEN {Ret(Err("KeyDerivationFailed"), self)}
              ELSE LET password_hash ==
                           Argon2_hash_password(self.passphrase.v, salt_string.val)
                   IN IF ~password_hash.ok
                      THEN {Ret(Err("KeyDerivationFailed"), KdfRan(self))}
                      ELSE {Ret(Ok(password_hash.val),
                                [KdfRan(self) EXCEPT !.key_cache =
                                    CacheInsert(@, salt, password_hash.val)])}

\* derive_key with an absent passphrase read as the empty string.
derive_key_default_passphrase(self, salt) ==
    IF salt \in DOMAIN self.key_cache
    THEN {Ret(Ok(self.key_cache[salt]), self)}
    ELSE LET salt_bytes == StdDecode(salt) IN
         IF ~salt_bytes.ok
         THEN {Ret(Err("KeyDerivationFailed"), self)}
         ELSE LET salt_string == SaltString_from_b64(StdEncode(salt_bytes.val)) IN
              IF ~salt_string.ok
              THEN {Ret(Err("KeyDerivationFailed"), self)}
              ELSE LET password_hash ==
                           Argon2_hash_password(self.passphrase.v, salt_string.val)
                   IN IF ~password_hash.ok
                      THEN {Ret(Err("KeyDerivationFailed"), KdfRan(self))}
                      ELSE {Ret(Ok(password_hash.val),
                                [KdfRan(self) EXCEPT !.key_cache =
                                    CacheInsert(@, salt, password_hash.val)])}

derive_key(self, salt) ==
    IF salt \in DOMAIN self.key_cache
    THEN {Ret(Ok(self.key_cache[salt]), self)}
    ELSE IF ~self.passphrase.some
    THEN {Ret(Err("InvalidPassphrase"), self)}
    ELSE LET salt_bytes == StdDecode(salt) IN
         IF ~salt_bytes.ok
         THEN {Ret(Err("KeyDerivationFailed"), self)}
         ELSE LET salt_string == SaltString_from_b64(StdEncode(salt_bytes.val)) IN
              IF ~salt_string.ok
              THEN {Ret(Err("KeyDerivationFailed"), self)}
              ELSE LET password_hash ==
                           Argon2_hash_password(self.passphrase.v, salt_string.val)
                   IN IF ~password_hash.ok
                      THEN {Ret(Err("KeyDerivationFailed"), KdfRan(self))}
                      ELSE {Ret(Ok(password_hash.val),
                                [KdfRan(self) EXCEPT !.key_cache =
                                    CacheInsert(@, salt, password_hash.val)])}

encrypt(self, data) ==
    IF ~self.passphrase.some
    THEN {Ret(Err("InvalidPassphrase"), self)}
    ELSE UNION {
        UNION {
            IF ~key_bytes.res.ok
            THEN {key_bytes}
            ELSE {Ret(Ok([salt |-> StdEncode(salt),
                          nonce |-> StdEncode(nonce),
                          ciphertext |-> StdEncode(
                              Aes256Gcm_encrypt(key_bytes.res.val, nonce, data))]),
                      key_bytes.self) : nonce \in OsRng_bytes(NONCE_LEN)}
            : key_bytes \in derive_key(self, StdEncode(salt))}
        : salt \in OsRng_bytes(SALT_LEN)}

\* decrypt as it would be with the passphrase left to derive_key and every
\* derive_key failure reported as DecryptionFailed.
decrypt_mapped_errors(self, encrypted_data) ==
    {IF ~key_bytes.res.ok
     THEN Ret(Err("DecryptionFailed"), key_bytes.self)
     ELSE LET nonce_bytes == StdDecode(encrypted_data.nonce) IN
          IF ~nonce_bytes.ok
          THEN Ret(Err("DecryptionFailed"), key_bytes.self)
          ELSE IF nonce_bytes.val.len # NONCE_LEN
          THEN Ret(Panic, key_bytes.self)
          ELSE LET ciphertext == StdDecode(encrypted_data.ciphertext) IN
               IF ~ciphertext.ok
               THEN Ret(Err("DecryptionFailed"), key_bytes.self)
               ELSE LET plaintext == Aes256Gcm_decrypt(key_bytes.res.val,
                                         nonce_bytes.val, ciphertext.val)
                    IN IF ~plaintext.ok
                       THEN Ret(Err("DecryptionFailed"), key_bytes.self)
                       ELSE Ret(Ok(plaintext.val), key_bytes.self)
     : key_bytes \in derive_key(self, encrypted_data.salt)}

decrypt(self, encrypted_data) ==
    IF ~self.passphrase.some
    THEN {Ret(Err("InvalidPassphrase"), self)}
    ELSE {IF ~key_bytes.res.ok
          THEN key_bytes                      \* derive_key(..)? : the error as it is
          ELSE LET nonce_bytes == StdDecode(encrypted_data.nonce) IN
               IF ~nonce_bytes.ok
               THEN Ret(Err("DecryptionFailed"), key_bytes.self)
               ELSE IF nonce_bytes.val.len # NONCE_LEN
               THEN Ret(Panic, key_bytes.self)    \* Nonce::from_slice asserts the length
               ELSE LET ciphertext == StdDecode(encrypted_data.ciphertext) IN
                    IF ~ciphertext.ok
                    THEN Ret(Err("DecryptionFailed"), key_bytes.self)
                    ELSE LET plaintext == Aes256Gcm_decrypt(key_bytes.res.val,
                                              nonce_bytes.val, ciphertext.val)
                         IN IF ~plaintext.ok
                            THEN Ret(Err("DecryptionFailed"), key_bytes.self)
                            ELSE Ret(Ok(plaintext.val), key_bytes.self)
          : key_bytes \in derive_key(self, encrypted_data.salt)}

is_encryption_enabled(self) == self.passphrase.some

(***************************************************************************)
(* serde_json.  A JSON document is bytes tagged "json" with the keys of    *)
(* its top-level object and the value it spells; pretty and compact output *)
(* differ in white space only and are one document here.  Deserialising a  *)
(* struct needs each of its fields to be present (unknown keys are         *)
(* ignored); anything else is a serde_json::Error.                         *)
(***************************************************************************)
EncryptedDataKeys == {"salt", "nonce", "ciphertext"}
PersistedStateKeys ==
    {"config", "pending_operations", "notifications", "terminal_sessions"}

serde_json_to(keys, value) ==
    [t |-> "json", len |-> Cardinality(keys), keys |-> keys, doc |-> value]

serde_json_from(bytes, keys) ==
    IF bytes.t = "json" /\ keys \subseteq bytes.keys
    THEN Ok(bytes.doc)
    ELSE Err("Serde")

\* encrypt_json / decrypt_json: serde_json around encrypt / decrypt.
encrypt_json(self, data) ==
    encrypt(self, serde_json_to(PersistedStateKeys, data))

\* decrypt_json with a deserialisation failure reported as DecryptionFailed.
decrypt_json_conflated(self, encrypted_data) ==
    {IF ~json_bytes.res.ok
     THEN json_bytes
     ELSE LET data == serde_json_from(json_bytes.res.val, PersistedStateKeys) IN
          IF ~data.ok
          THEN Ret(Err("DecryptionFailed"), json_bytes.self)
          ELSE Ret(Ok(data.val), json_bytes.self)
     : json_bytes \in decrypt(self, encrypted_data)}

decrypt_json(self, encrypted_data) ==
    {IF ~json_bytes.res.ok
     THEN json_bytes
     ELSE LET data == serde_json_from(json_bytes.res.val, PersistedStateKeys) IN
          IF ~data.ok
          THEN Ret(Err("SerializationError"), json_bytes.self)
          ELSE Ret(Ok(data.val), json_bytes.self)
     : json_bytes \in decrypt(self, encrypted_data)}

(***************************************************************************)
(* state.rs: SidecarConfig, PersistedState, AppState.  Of a notification   *)
(* and an operation the model keeps the fields some handler reads or sets; *)
(* uuids of notifications and all timestamps are opaque data that no       *)
(* handler reads.                                                          *)
(***************************************************************************)
SidecarConfig_default_light ==
    [theme |-> "light", auto_approve_read_ops |-> TRUE,
     show_notifications |-> TRUE, terminal_shell |-> "/bin/bash",
     encryption_enabled |-> FALSE]

SidecarConfig_default ==
    [theme |-> "dark", auto_approve_read_ops |-> TRUE,
     show_notifications |-> TRUE, terminal_shell |-> "/bin/bash",
     encryption_enabled |-> FALSE]

\* Another configuration the front end can send to update_app_config.
OtherConfig ==
    [theme |-> "light", auto_approve_read_ops |-> FALSE,
     show_notifications |-> TRUE, terminal_shell |-> "/bin/zsh",
     encryption_enabled |-> TRUE]
Configs == {SidecarConfig_default, OtherConfig}

NoSessions == << >>

PersistedState_default ==
    [config |-> SidecarConfig_default, pending_operations |-> << >>,
     notifications |-> << >>, terminal_sessions |-> NoSessions]

\* The PersistedState that save_state builds from the AppState.
PersistedOf(self) ==
    [config |-> self.config, pending_operations |-> self.pending_operations,
     notifications |-> self.notifications,
     terminal_sessions |-> self.terminal_sessions]

\* AppState::new before load_state: defaults and CryptoManager::default(),
\* which reads MULTIAPP_PASSPHRASE.
AppState_fields(passphrase) ==
    [config |-> SidecarConfig_default, pending_operations |-> << >>,
     notifications |-> << >>, terminal_sessions |-> NoSessions,
     crypto |-> CryptoManager_new(passphrase)]

(***************************************************************************)
(* The state file and std::fs.  read_to_string of an existing file gives   *)
(* its content or an I/O error.  write creates or truncates the file and   *)
(* then writes: it succeeds, or fails before touching the file, or fails   *)
(* after truncating it.                                                    *)
(***************************************************************************)
Absent == [exists |-> FALSE, content |-> Nil]
FileOf(bytes) == [exists |-> TRUE, content |-> bytes]
Truncated == FileOf(Raw(0))

Out(r, m) == [res |-> r, m |-> m]

fs_read_to_string(m) == {Ok(m.file.content), Err("Io")}

\* fs_write opening the file in append mode: the bytes follow the old ones.
fs_write_append(m, content) ==
    {Out(Ok(Nil), [m EXCEPT !.file =
                       IF m.file.exists
                       THEN FileOf([t |-> "appended",
                                    len |-> m.file.content.len + content.len,
                                    head |-> m.file.content, tail |-> content])
                       ELSE FileOf(content)]),
     Out(Err("Io"), m)}

fs_write(m, content) ==
    {Out(Ok(Nil), [m EXCEPT !.file = FileOf(content)]),
     Out(Err("Io"), m),
     Out(Err("Io"), [m EXCEPT !.file = Truncated])}

(***************************************************************************)
(* Methods of AppState run on a machine m: m.self is the AppState, m.file  *)
(* the state file; m.attempted and m.last_save record the PersistedState   *)
(* handed to the latest save_state call and whether that call left the     *)
(* file as it found it, m.saves and m.failed count the save_state calls    *)
(* since the lock was taken and those of them that returned an error.  A   *)
(* method is the set of its possible outcomes [res, m].                    *)
(***************************************************************************)
NoSave ==
    [called |-> FALSE, pass |-> None, state |-> PersistedState_default,
     res |-> Ok(Nil), kept |-> TRUE]

\* No load_state has returned; and the note of one that has: how many
\* returned, and the four fields and the file it left.
NotLoaded == [calls |-> 0, state |-> PersistedState_default, file |-> Absent]
Loaded(l) ==
    Out(l.res, [l.m EXCEPT !.loaded = [calls |-> @.calls + 1,
                                       state |-> PersistedOf(l.m.self),
                                       file |-> l.m.file]])

\* load_state that removes a state file it cannot parse.
load_state_discarding(m) ==
    IF ~m.file.exists
    THEN {Out(Ok(Nil), m)}
    ELSE UNION {
        IF ~file_content.ok
        THEN {Out(file_content, m)}
        ELSE IF is_encryption_enabled(m.self.crypto)
        THEN LET encrypted_data ==
                     serde_json_from(file_content.val, EncryptedDataKeys)
             IN IF ~encrypted_data.ok
                THEN {Out(encrypted_data, [m EXCEPT !.file = Absent])}
                ELSE {IF ~persisted_state.res.ok
                      THEN Out(persisted_state.res,
                               [m EXCEPT !.self.crypto = persisted_state.self])
                      ELSE Out(Ok(Nil),
                               [m EXCEPT
                                   !.self.crypto = persisted_state.self,
                                   !.self.config = persisted_state.res.val.config,
                                   !.self.pending_operations =
                                       persisted_state.res.val.pending_operations,
                                   !.self.notifications =
                                       persisted_state.res.val.notifications,
                                   !.self.terminal_sessions =
                                       persisted_state.res.val.terminal_sessions,
                                   !.attempted = persisted_state.res.val])
                      : persisted_state \in
                            decrypt_json(m.self.crypto, encrypted_data.val)}
        ELSE LET persisted_state ==
                     serde_json_from(file_content.val, PersistedStateKeys)
             IN IF ~persisted_state.ok
                THEN {Out(persisted_state, [m EXCEPT !.file = Absent])}
                ELSE {Out(Ok(Nil),
                          [m EXCEPT
                              !.self.config = persisted_state.val.config,
                              !.self.pending_operations =
                                  persisted_state.val.pending_operations,
                              !.self.notifications =
                                  persisted_state.val.notifications,
                              !.self.terminal_sessions =
                                  persisted_state.val.terminal_sessions,
                              !.attempted = persisted_state.val])}
        : file_content \in fs_read_to_string(m)}

load_state(m) ==
    IF ~m.file.exists
    THEN {Out(Ok(Nil), m)}
    ELSE UNION {
        IF ~file_content.ok
        THEN {Out(file_content, m)}
        ELSE IF is_encryption_enabled(m.self.crypto)
        THEN LET encrypted_data ==
                     serde_json_from(file_content.val, EncryptedDataKeys)
             IN IF ~encrypted_data.ok
                THEN {Out(encrypted_data, m)}
                ELSE {IF ~persisted_state.res.ok
                      THEN Out(persisted_state.res,
                               [m EXCEPT !.self.crypto = persisted_state.self])
                      ELSE Out(Ok(Nil),
                               [m EXCEPT
                                   !.self.crypto = persisted_state.self,
                                   !.self.config = persisted_state.res.val.config,
                                   !.self.pending_operations =
                                       persisted_state.res.val.pending_operations,
                                   !.self.notifications =
                                       persisted_state.res.val.notifications,
                                   !.self.terminal_sessions =
                                       persisted_state.res.val.terminal_sessions,
                                   !.attempted = persisted_state.res.val])
                      : persisted_state \in
                            decrypt_json(m.self.crypto, encrypted_data.val)}
        ELSE LET persisted_state ==
                     serde_json_from(file_content.val, PersistedStateKeys)
             IN IF ~persisted_state.ok
                THEN {Out(persisted_state, m)}
                ELSE {Out(Ok(Nil),
                          [m EXCEPT
                              !.self.config = persisted_state.val.config,
                              !.self.pending_operations =
                                  persisted_state.val.pending_operations,
                              !.self.notifications =
                                  persisted_state.val.notifications,
                              !.self.terminal_sessions =
                                  persisted_state.val.terminal_sessions,
                              !.attempted = persisted_state.val])}
        : file_content \in fs_read_to_string(m)}

\* save_state choosing its mode by config.encryption_enabled.
save_state_by_config(m) ==
    LET persisted_state == PersistedOf(m.self) IN
    IF m.self.config.encryption_enabled
    THEN UNION {
        IF ~encrypted_data.res.ok
        THEN {Out(encrypted_data.res,
                  [m EXCEPT !.self.crypto = encrypted_data.self,
                            !.attempted = persisted_state,
                            !.saves = @ + 1,
                            !.failed = @ + 1,
                            !.last_save = [called |-> TRUE,
                                           pass |-> m.self.crypto.passphrase,
                                           state |-> persisted_state,
                                           res |-> encrypted_data.res,
                                           kept |-> TRUE]])}
        ELSE {[w EXCEPT !.m.attempted = persisted_state,
                         !.m.saves = @ + 1,
                         !.m.failed = IF w.res.ok THEN @ ELSE @ + 1,
                         !.m.last_save = [called |-> TRUE,
                                          pass |-> m.self.crypto.passphrase,
                                          state |-> persisted_state,
                                          res |-> w.res, kept |-> w.m.file = m.file]] :
                 w \in fs_write([m EXCEPT !.self.crypto = encrypted_data.self],
                                serde_json_to(EncryptedDataKeys,
                                              encrypted_data.res.val))}
        : encrypted_data \in encrypt_json(m.self.crypto, persisted_state)}
    ELSE {[w EXCEPT !.m.attempted = persisted_state,
                     !.m.saves = @ + 1,
                     !.m.failed = IF w.res.ok THEN @ ELSE @ + 1,
                     !.m.last_save = [called |-> TRUE,
                                      pass |-> m.self.crypto.passphrase,
                                      state |-> persisted_state,
                                      res |-> w.res, kept |-> w.m.file = m.file]] :
             w \in fs_write(m, serde_json_to(PersistedStateKeys, persisted_state))}

\* save_state.  Noted(..) records the call; the rest is the method.
Noted(o, passphrase, persisted_state, before) ==
    Out(o.res,
        [o.m EXCEPT
            !.attempted = persisted_state,
            !.saves = @ + 1,
            !.failed = IF o.res.ok THEN @ ELSE @ + 1,
            !.last_save = [called |-> TRUE, pass |-> passphrase,
                           state |-> persisted_state, res |-> o.res,
                           kept |-> o.m.file = before]])

save_state(m) ==
    LET persisted_state == PersistedOf(m.self) IN
    IF is_encryption_enabled(m.self.crypto)
    THEN UNION {
        IF ~encrypted_data.res.ok
        THEN {Noted(Out(encrypted_data.res,
                        [m EXCEPT !.self.crypto = encrypted_data.self]),
                    m.self.crypto.passphrase, persisted_state, m.file)}
        ELSE {Noted(w, m.self.crypto.passphrase, persisted_state, m.file) :
                 w \in fs_write([m EXCEPT !.self.crypto = encrypted_data.self],
                                serde_json_to(EncryptedDataKeys,
                                              encrypted_data.res.val))}
        : encrypted_data \in encrypt_json(m.self.crypto, persisted_state)}
    ELSE {Noted(w, m.self.crypto.passphrase, persisted_state, m.file) :
             w \in fs_write(m, serde_json_to(PersistedStateKeys, persisted_state))}

\* Uuid::new_v4: an id no live record carries.
FreshId(used) == CHOOSE i \in 1..(Cardinality(used) + 1) : i \notin used
OperationIds(self) ==
    {self.pending_operations[i].id : i \in DOMAIN self.pending_operations}

\* add_operation: returns the new id; a save error is printed and dropped.
add_operation(m, operation_type) ==
    LET id == FreshId(OperationIds(m.self))
        operation == [id |-> id, operation_type |-> operation_type,
                      status |-> "pending"]
    IN {Out(Ok([t |-> "id", id |-> id]), sv.m) :
           sv \in save_state([m EXCEPT !.self.pending_operations =
                                           Append(@, operation)])}

\* update_operation_status without its autosave.
update_operation_status_no_save(m, id, status) ==
    IF id \in OperationIds(m.self)
    THEN LET i == CHOOSE j \in DOMAIN m.self.pending_operations :
                      m.self.pending_operations[j].id = id
         IN {Out(Ok(Nil), [m EXCEPT !.self.pending_operations[i].status = status])}
    ELSE {Out(Err("Operation not found"), m)}

\* update_operation_status that changes the status of undecided operations
\* only.
update_operation_status_guarded(m, id, status) ==
    IF id \in OperationIds(m.self)
    THEN LET i == CHOOSE j \in DOMAIN m.self.pending_operations :
                      m.self.pending_operations[j].id = id
         IN IF m.self.pending_operations[i].status \in {"pending", "approved"}
            THEN {Out(Ok(Nil), sv.m) :
                     sv \in save_state([m EXCEPT
                                !.self.pending_operations[i].status = status])}
            ELSE {Out(Err("Operation already decided"), m)}
    ELSE {Out(Err("Operation not found"), m)}

\* update_operation_status that saves the state also when the id is unknown.
update_operation_status_saving_miss(m, id, status) ==
    IF id \in OperationIds(m.self)
    THEN LET i == CHOOSE j \in DOMAIN m.self.pending_operations :
                      m.self.pending_operations[j].id = id
         IN {Out(Ok(Nil), sv.m) :
                sv \in save_state([m EXCEPT
                                      !.self.pending_operations[i].status = status])}
    ELSE {Out(Err("Operation not found"), sv.m) : sv \in save_state(m)}

update_operation_status(m, id, status) ==
    IF id \in OperationIds(m.self)
    THEN LET i == CHOOSE j \in DOMAIN m.self.pending_operations :
                      m.self.pending_operations[j].id = id
         IN {Out(Ok(Nil), sv.m) :
                sv \in save_state([m EXCEPT
                                      !.self.pending_operations[i].status = status])}
    ELSE {Out(Err("Operation not found"), m)}

\* add_notification without the save_state call.
add_notification_unsaved(m, message, level) ==
    LET notification == [message |-> message, level |-> level, dismissed |-> FALSE]
    IN {Out(Ok(Nil), [m EXCEPT !.self.notifications = Append(@, notification)])}

add_notification(m, message, level) ==
    LET notification == [message |-> message, level |-> level, dismissed |-> FALSE]
    IN {Out(Ok(Nil), sv.m) :
           sv \in save_state([m EXCEPT !.self.notifications =
                                           Append(@, notification)])}

\* AppState::clear_notifications: drop the dismissed ones.
clear_notifications(m) ==
    LET kept == SelectSeq(m.self.notifications, LAMBDA n : ~n.dismissed) IN
    IF Len(kept) # Len(m.self.notifications)
    THEN {Out(Ok(Nil), sv.m) :
             sv \in save_state([m EXCEPT !.self.notifications = kept])}
    ELSE {Out(Ok(Nil), m)}

\* AppState::new from load_state on: the warning on a failed load.  A panic
\* inside load_state unwinds out of new: no AppState is built.
AppState_new(m) ==
    UNION {
        IF l.res.ok \/ l.res = Panic
        THEN {Loaded(l)}
        ELSE {Out(l.res, n.m) :
                 n \in add_notification(Loaded(l).m,
                                        "Failed to load persisted state",
                                        "warning")}
        : l \in load_state(m)}

(***************************************************************************)
(* Handlers: what each does between taking and releasing the state lock.   *)
(***************************************************************************)
OperationTypes == {"apply_patch", "unknown"}

\* events.rs simulate_operation_execution: "apply_patch" succeeds, a type it
\* does not know fails.
simulate_operation_execution(operation) ==
    [success |-> operation.operation_type = "apply_patch"]

OperationById(self, id) ==
    self.pending_operations[
        CHOOSE j \in DOMAIN self.pending_operations :
            self.pending_operations[j].id = id]

\* server.rs handle_events_endpoint, "operation_request".
handle_operation_request(m, operation_type) ==
    UNION {
        {Out(Ok(operation_id.res.val), n.m) :
            n \in add_notification(operation_id.m, "New operation pending approval",
                                   "info")}
        : operation_id \in add_operation(m, operation_type)}

\* server.rs handle_events_endpoint, "chat_message".
handle_chat_message(m) ==
    {Out(Ok(Nil), n.m) : n \in add_notification(m, "Chat: hello", "info")}

\* server.rs handle_approve_operation / handle_reject_operation.
handle_approve_operation(m, operation_id) ==
    UNION {
        IF u.res.ok
        THEN {Out(Ok(Nil), n.m) :
                 n \in add_notification(u.m, "Operation approved", "info")}
        ELSE {Out(Err("NOT_FOUND"), u.m)}
        : u \in update_operation_status(m, operation_id, "approved")}

handle_reject_operation(m, operation_id) ==
    UNION {
        IF u.res.ok
        THEN {Out(Ok(Nil), n.m) :
                 n \in add_notification(u.m, "Operation rejected", "warning")}
        ELSE {Out(Err("NOT_FOUND"), u.m)}
        : u \in update_operation_status(m, operation_id, "rejected")}

\* server.rs handle_clear_notifications.
handle_clear_notifications(m) == clear_notifications(m)

\* events.rs approve_operation, once the operation is found.
approve_found(m, operation_id, result) ==
    LET final_status == IF result.success THEN "completed" ELSE "failed" IN
    UNION {
        IF ~u1.res.ok
        THEN {u1}
        ELSE UNION {
            IF ~u2.res.ok
            THEN {u2}
            ELSE {Out(Ok([t |-> "status", status |-> final_status]), n.m) :
                     n \in add_notification(u2.m, "Operation executed",
                               IF result.success THEN "info" ELSE "error")}
            : u2 \in update_operation_status(u1.m, operation_id, final_status)}
        : u1 \in update_operation_status(m, operation_id, "approved")}

\* events.rs approve_operation.
approve_operation(m, operation_id) ==
    IF operation_id \in OperationIds(m.self)
    THEN approve_found(m, operation_id,
             simulate_operation_execution(OperationById(m.self, operation_id)))
    ELSE {Out(Err("Operation not found"), m)}

\* events.rs approve_operation up to the await of the simulated execution:
\* the lookup, the clone and the first status update.
approve_operation_begin(m, operation_id) ==
    IF operation_id \in OperationIds(m.self)
    THEN {IF ~u1.res.ok
          THEN u1
          ELSE Out(Ok(OperationById(m.self, operation_id)), u1.m)
          : u1 \in update_operation_status(m, operation_id, "approved")}
    ELSE {Out(Err("Operation not found"), m)}

\* events.rs approve_operation after the await that leaves the status at
\* "approved": the notification and the response only.
approve_operation_finish_unset(m, operation_id, result) ==
    LET final_status == IF result.success THEN "completed" ELSE "failed" IN
    {Out(Ok([t |-> "status", status |-> final_status]), n.m) :
        n \in add_notification(m, "Operation executed",
                  IF result.success THEN "info" ELSE "error")}

\* events.rs approve_operation after the await: the final status, the
\* notification and the response.
approve_operation_finish(m, operation_id, result) ==
    LET final_status == IF result.success THEN "completed" ELSE "failed" IN
    UNION {
        IF ~u2.res.ok
        THEN {u2}
        ELSE {Out(Ok([t |-> "status", status |-> final_status]), n.m) :
                 n \in add_notification(u2.m, "Operation executed",
                           IF result.success THEN "info" ELSE "error")}
        : u2 \in update_operation_status(m, operation_id, final_status)}

\* events.rs reject_operation.
reject_operation(m, operation_id) ==
    UNION {
        IF ~u.res.ok
        THEN {u}
        ELSE {Out(Ok([t |-> "status", status |-> "rejected"]), n.m) :
                 n \in add_notification(u.m, "Operation rejected by user",
                                        "warning")}
        : u \in update_operation_status(m, operation_id, "rejected")}

\* events.rs clear_notifications: marks every notification dismissed.
events_clear_notifications(m) ==
    {IF sv.res.ok THEN Out(Ok(Nil), sv.m) ELSE Out(Err("save"), sv.m) :
        sv \in save_state([m EXCEPT !.self.notifications =
                  [i \in DOMAIN @ |-> [@[i] EXCEPT !.dismissed = TRUE]]])}

\* state.rs update_app_config.
update_app_config(m, config) ==
    {IF sv.res.ok THEN Out(Ok(Nil), sv.m) ELSE Out(Err("save"), sv.m) :
        sv \in save_state([m EXCEPT !.self.config = config])}

\* terminal.rs create_terminal, first lock: the session is built from the
\* shell argument or config.terminal_shell.
SessionIds(self) == DOMAIN self.terminal_sessions
create_terminal_build(self, shell, session_id) ==
    [id |-> session_id,
     shell |-> IF shell.some THEN shell.v ELSE self.config.terminal_shell,
     rows |-> 24, cols |-> 80, active |-> TRUE]

SessionsInsert(sessions, id, value) ==
    [k \in (DOMAIN sessions) \cup {id} |-> IF k = id THEN value ELSE sessions[k]]

\* terminal.rs create_terminal, second lock: insert and save.
create_terminal_store(m, session) ==
    {Out(Ok(session), sv.m) :
        sv \in save_state([m EXCEPT !.self.terminal_sessions =
                                        SessionsInsert(@, session.id, session)])}

\* terminal.rs write_to_terminal.
write_to_terminal(m, session_id) ==
    IF session_id \in SessionIds(m.self)
    THEN IF ~m.self.terminal_sessions[session_id].active
         THEN {Out(Err("Terminal session is not active"), m)}
         ELSE {Out(Ok(Nil), m)}
    ELSE {Out(Err("Terminal session not found"), m)}

\* resize_terminal that writes a new record for the session, active as a new
\* one is.
resize_terminal_rebuilding(m, session_id, rows, cols) ==
    IF session_id \in SessionIds(m.self)
    THEN {Out(Ok(Nil), sv.m) :
             sv \in save_state([m EXCEPT !.self.terminal_sessions[session_id] =
                                    [@ EXCEPT !.rows = rows, !.cols = cols,
                                              !.active = TRUE]])}
    ELSE {Out(Err("Terminal session not found"), m)}

\* terminal.rs resize_terminal.
resize_terminal(m, session_id, rows, cols) ==
    IF session_id \in SessionIds(m.self)
    THEN {Out(Ok(Nil), sv.m) :
             sv \in save_state([m EXCEPT !.self.terminal_sessions[session_id] =
                                    [@ EXCEPT !.rows = rows, !.cols = cols]])}
    ELSE {Out(Err("Terminal session not found"), m)}

\* terminal.rs kill_terminal.
kill_terminal(m, session_id) ==
    IF session_id \in SessionIds(m.self)
    THEN {Out(Ok(Nil), sv.m) :
             sv \in save_state([m EXCEPT
                                   !.self.terminal_sessions[session_id].active = FALSE])}
    ELSE {Out(Err("Terminal session not found"), m)}

(***************************************************************************)
(* Envelopes a caller can hand to decrypt: what the disk or a test can     *)
(* hold.  Salts in the program's own format (16 bytes, padded), salts of   *)
(* another writer (18 bytes, no padding), too-short and malformed salts;   *)
(* nonces of the right and of a wrong length; ciphertexts sealed under any *)
(* passphrase, salt, nonce and payload, and unauthentic bytes.             *)
(***************************************************************************)
SaltBytes ==
    {RandBytes(SALT_LEN, i) : i \in Rand} \cup
    {RandBytes(FOREIGN_SALT_LEN, i) : i \in Rand}
NonceBytes == {RandBytes(NONCE_LEN, i) : i \in Rand}
KdfKey(p, s) == [t |-> "key", len |-> KEY_LEN, pass |-> p, salt |-> s]

SaltTexts ==
    {StdEncode(s) : s \in SaltBytes} \cup
    {StdEncode(RandBytes(SHORT_SALT_LEN, 1)),
     Unpadded(StdEncode(RandBytes(SALT_LEN, 1))),
     NotBase64(StdEncode(RandBytes(FOREIGN_SALT_LEN, 1)))}
NonceTexts ==
    {StdEncode(n) : n \in NonceBytes} \cup
    {StdEncode(RandBytes(SHORT_NONCE_LEN, 1)),
     NotBase64(StdEncode(RandBytes(NONCE_LEN, 1)))}
SealedBytes ==
    {Aes256Gcm_encrypt(KdfKey(p, s), n, d) :
        p \in Passphrases, s \in SaltBytes, n \in NonceBytes, d \in Payloads}
CiphertextTexts ==
    {StdEncode(c) : c \in SealedBytes} \cup
    {StdEncode(RandBytes(TAG_LEN, 1)),
     NotBase64(StdEncode(RandBytes(TAG_LEN, 1)))}
ForeignEnvelopes ==
    [salt : SaltTexts, nonce : NonceTexts, ciphertext : CiphertextTexts]

NoEnvelope == [salt |-> Nil, nonce |-> Nil, ciphertext |-> Nil]

\* A state other than the default one, as a file can hold it.
SampleState ==
    [config |-> OtherConfig,
     pending_operations |->
         <<[id |-> 1, operation_type |-> "apply_patch", status |-> "pending"]>>,
     notifications |->
         <<[message |-> "Chat: hello", level |-> "info", dismissed |-> FALSE]>>,
     terminal_sessions |-> NoSessions]

SampleJson == serde_json_to(PersistedStateKeys, SampleState)
OwnSalt == RandBytes(SALT_LEN, 1)
ForeignSalt == RandBytes(FOREIGN_SALT_LEN, 1)
GoodNonce == RandBytes(NONCE_LEN, 1)
SealedUnder(p, salt, payload) ==
    StdEncode(Aes256Gcm_encrypt(KdfKey(p, salt), GoodNonce, payload))
EnvelopeFile(salt_text, nonce_text, ciphertext_text) ==
    FileOf(serde_json_to(EncryptedDataKeys,
        [salt |-> salt_text, nonce |-> nonce_text, ciphertext |-> ciphertext_text]))

\* A document that lacks fields of PersistedState.
PartialJson == serde_json_to({"config"}, [config |-> OtherConfig])

\* Envelopes a caller can hand to decrypt_json: sealed under "p1", with a
\* payload that deserialises, one that is JSON of another shape, one that is
\* no JSON; a ciphertext that does not authenticate; a nonce of a wrong length.
JsonEnvelopes ==
    [salt : {StdEncode(ForeignSalt), StdEncode(OwnSalt)},
     nonce : {StdEncode(GoodNonce), StdEncode(RandBytes(SHORT_NONCE_LEN, 1))},
     ciphertext : {SealedUnder("p1", ForeignSalt, SampleJson),
                   SealedUnder("p1", ForeignSalt, PartialJson),
                   SealedUnder("p1", ForeignSalt, Raw(1)),
                   StdEncode(RandBytes(TAG_LEN, 1))}]

lockVars == <<lock, tasks>>
appVars ==
    <<proc, app, file, creating, boot, ret, attempted, last_save, starts_left,
      calls_left, lock, tasks>>
cryptoVars == <<crypto, call, issued>>

NoApp == AppState_fields(None)

\* tokio::sync::Mutex<AppState>: the holder is a task, or nobody.
NoHolder == 0
Tasks == 1..MaxTasks
NoArg == [t |-> "none"]
NoOut == [t |-> "none"]
NoTask == [pc |-> "idle", op |-> "none", arg |-> NoArg, out |-> NoOut]
NoBoot ==
    [pass |-> None, file |-> Absent, saved |-> NoSave, load |-> Ok(Nil),
     loaded |-> NotLoaded]
Returned(op, res, m, changed) ==
    [op |-> op, res |-> res, saves |-> m.saves, failed |-> m.failed,
     changed |-> changed]
NoCalls == [saves |-> 0, failed |-> 0]
NoRet == Returned("none", Ok(Nil), NoCalls, FALSE)

\* No process has been started.
AppIdle ==
    /\ proc = "stopped"
    /\ app = NoApp
    /\ file = Absent
    /\ creating = {}
    /\ boot = NoBoot
    /\ ret = NoRet
    /\ attempted = PersistedState_default
    /\ last_save = NoSave
    /\ starts_left = 0
    /\ calls_left = 0
    /\ lock = NoHolder
    /\ tasks = [t \in Tasks |-> NoTask]


(***************************************************************************)
(* CryptoSpec: one CryptoManager driven as the unit tests drive it, one    *)
(* call at a time.                                                         *)
(***************************************************************************)
Idle ==
    [op |-> "idle", data |-> Nil, env |-> NoEnvelope, res |-> Ok(Nil),
     cached |-> None]

\* The key the cache holds for the salt, if any.
Cached(self, salt) ==
    IF salt \in DOMAIN self.key_cache THEN Some(self.key_cache[salt]) ELSE None

CryptoInit ==
    /\ crypto \in {CryptoManager_new(p) : p \in OptPassphrases}
    /\ call = Idle
    /\ issued = {}
    /\ AppIdle

\* CryptoManager::new with the same or another passphrase (a fresh manager).
NewManager(p) ==
    /\ call = Idle
    /\ crypto' = CryptoManager_new(p)
    /\ UNCHANGED <<call, issued>>
    /\ UNCHANGED appVars

CallEncrypt(data) ==
    /\ call = Idle
    /\ \E r \in encrypt(crypto, data) :
          /\ crypto' = r.self
          /\ call' = [op |-> "encrypt", data |-> data, env |-> NoEnvelope,
                      res |-> r.res,
                      cached |-> IF r.res.ok THEN Cached(crypto, r.res.val.salt)
                                 ELSE None]
          /\ issued' = IF r.res.ok /\ Cardinality(issued) < MaxIssued
                       THEN issued \cup {[env |-> r.res.val, data |-> data,
                                          pass |-> crypto.passphrase]}
                       ELSE issued
    /\ UNCHANGED appVars

CallDecrypt(env) ==
    /\ call = Idle
    /\ \E r \in decrypt(crypto, env) :
          /\ crypto' = r.self
          /\ call' = [op |-> "decrypt", data |-> Nil, env |-> env, res |-> r.res,
                      cached |-> Cached(crypto, env.salt)]
    /\ UNCHANGED issued
    /\ UNCHANGED appVars

CallDecryptJson(env) ==
    /\ call = Idle
    /\ \E r \in decrypt_json(crypto, env) :
          /\ crypto' = r.self
          /\ call' = [op |-> "decrypt_json", data |-> Nil, env |-> env,
                      res |-> r.res, cached |-> Cached(crypto, env.salt)]
    /\ UNCHANGED issued
    /\ UNCHANGED appVars

\* derive_key called from inside crypto.rs (it is private to the module).
CallDeriveKey(salt) ==
    /\ call = Idle
    /\ \E r \in derive_key(crypto, salt) :
          /\ crypto' = r.self
          /\ call' = [op |-> "derive_key", data |-> Nil,
                      env |-> [NoEnvelope EXCEPT !.salt = salt], res |-> r.res,
                      cached |-> Cached(crypto, salt)]
    /\ UNCHANGED issued
    /\ UNCHANGED appVars

\* The caller has looked at the result; the next call can be made, and
\* kdf_runs counts from it on.
CallReturns ==
    /\ call # Idle
    /\ call' = Idle
    /\ crypto' = [crypto EXCEPT !.kdf_runs = 0]
    /\ UNCHANGED issued
    /\ UNCHANGED appVars

CryptoNext ==
    \/ CallReturns
    \/ \E p \in OptPassphrases : NewManager(p)
    \/ \E data \in Payloads : CallEncrypt(data)
    \/ \E env \in ForeignEnvelopes \cup {i.env : i \in issued} : CallDecrypt(env)
    \/ \E env \in JsonEnvelopes : CallDecryptJson(env)
    \/ \E salt \in SaltTexts : CallDeriveKey(salt)

vars == <<crypto, call, issued, proc, app, file, creating, boot, ret,
          attempted, last_save, starts_left, calls_left, lock, tasks>>

CryptoSpec == CryptoInit /\ [][CryptoNext]_vars

(***************************************************************************)
(* Spec: the sidecar process.  The state file found at the first start is  *)
(* absent, or holds what an earlier version, another tool or a damaged     *)
(* disk left there.                                                        *)
(***************************************************************************)
InitialFiles ==
    {Absent,
     FileOf(Raw(1)),
     FileOf(SampleJson),
     EnvelopeFile(StdEncode(ForeignSalt), StdEncode(GoodNonce),
                  SealedUnder("p1", ForeignSalt, SampleJson)),
     EnvelopeFile(StdEncode(OwnSalt), StdEncode(GoodNonce),
                  SealedUnder("p1", OwnSalt, SampleJson)),
     EnvelopeFile(StdEncode(ForeignSalt), StdEncode(GoodNonce),
                  SealedUnder("p1", ForeignSalt, Raw(1))),
     EnvelopeFile(StdEncode(ForeignSalt), StdEncode(GoodNonce),
                  StdEncode(RandBytes(TAG_LEN, 1))),
     EnvelopeFile(StdEncode(ForeignSalt), StdEncode(RandBytes(SHORT_NONCE_LEN, 1)),
                  SealedUnder("p1", ForeignSalt, SampleJson))}

Init ==
    /\ crypto = CryptoManager_new(None)
    /\ call = Idle
    /\ issued = {}
    /\ proc = "stopped"
    /\ app = NoApp
    /\ file \in InitialFiles
    /\ creating = {}
    /\ boot = NoBoot
    /\ ret = NoRet
    /\ attempted = PersistedState_default
    /\ last_save = NoSave
    /\ starts_left = MaxRuns
    /\ calls_left = MaxCalls
    /\ lock = NoHolder
    /\ tasks = [t \in Tasks |-> NoTask]

Machine(self) ==
    [self |-> self, file |-> file, attempted |-> attempted,
     last_save |-> last_save, saves |-> 0, failed |-> 0, loaded |-> NotLoaded]

Commit(m) ==
    /\ app' = m.self
    /\ file' = m.file
    /\ attempted' = m.attempted
    /\ last_save' = m.last_save

\* run(): AppState::new in setup, with MULTIAPP_PASSPHRASE = p.  A panic in
\* setup ends the start: no state is managed, no server is spawned.
Start(p) ==
    /\ proc = "stopped"
    /\ starts_left > 0
    /\ \E r \in AppState_new([Machine(AppState_fields(p)) EXCEPT
                                  !.attempted = PersistedState_default]) :
          /\ proc' = IF r.res = Panic THEN "crashed" ELSE "running"
          /\ IF r.res = Panic
             THEN /\ app' = NoApp
                  /\ UNCHANGED <<file, attempted, last_save>>
             ELSE Commit(r.m)
          /\ boot' = [pass |-> p, file |-> file, saved |-> last_save,
                      load |-> r.res, loaded |-> r.m.loaded]
          /\ ret' = Returned("start", r.res, r.m,
                             PersistedOf(r.m.self) # PersistedState_default)
    /\ starts_left' = starts_left - 1
    /\ UNCHANGED <<creating, calls_left>>
    /\ UNCHANGED lockVars
    /\ UNCHANGED cryptoVars

\* The process ends; the file stays.
Exit ==
    /\ proc \in {"running", "crashed"}
    /\ proc' = "stopped"
    /\ app' = NoApp
    /\ creating' = {}
    /\ attempted' = PersistedState_default
    /\ ret' = Returned("exit", Ok(Nil), NoCalls, FALSE)
    /\ UNCHANGED <<file, boot, last_save, starts_left, calls_left>>
    /\ UNCHANGED lockVars
    /\ UNCHANGED cryptoVars

\* A handler that holds the lock once: outcomes is what it can do to the
\* machine it finds.
Handler(name, outcomes) ==
    /\ proc = "running"
    /\ calls_left > 0
    /\ \E r \in outcomes :
          /\ Commit(r.m)
          /\ ret' = Returned(name, r.res, r.m,
                             PersistedOf(r.m.self) # PersistedOf(app))
    /\ calls_left' = calls_left - 1
    /\ UNCHANGED <<proc, creating, boot, starts_left>>
    /\ UNCHANGED lockVars
    /\ UNCHANGED cryptoVars

RoomForNotification == Len(app.notifications) < MaxNotifs
OperationIdArgs == OperationIds(app) \cup {0}
SessionIdArgs == SessionIds(app) \cup {0}

HandleOperationRequest(operation_type) ==
    /\ Len(app.pending_operations) < MaxOps
    /\ RoomForNotification
    /\ Handler("handle_operation_request",
               handle_operation_request(Machine(app), operation_type))

HandleChatMessage ==
    /\ RoomForNotification
    /\ Handler("handle_chat_message", handle_chat_message(Machine(app)))

HandleApproveOperation(id) ==
    /\ RoomForNotification
    /\ Handler("handle_approve_operation",
               handle_approve_operation(Machine(app), id))

HandleRejectOperation(id) ==
    /\ RoomForNotification
    /\ Handler("handle_reject_operation",
               handle_reject_operation(Machine(app), id))

HandleClearNotifications ==
    Handler("handle_clear_notifications",
            handle_clear_notifications(Machine(app)))

ApproveOperation(id) ==
    /\ RoomForNotification
    /\ Handler("approve_operation", approve_operation(Machine(app), id))

RejectOperation(id) ==
    /\ RoomForNotification
    /\ Handler("reject_operation", reject_operation(Machine(app), id))

ClearNotifications ==
    Handler("clear_notifications", events_clear_notifications(Machine(app)))

UpdateAppConfig(config) ==
    Handler("update_app_config", update_app_config(Machine(app), config))

\* create_terminal up to drop(app_state): the session is built, not stored.
CreateTerminalBuild(shell) ==
    /\ proc = "running"
    /\ calls_left > 0
    /\ Cardinality(SessionIds(app)) + Cardinality(creating) < MaxSessions
    /\ LET used == SessionIds(app) \cup {c.id : c \in creating}
       IN creating' = creating \cup {create_terminal_build(app, shell, FreshId(used))}
    /\ calls_left' = calls_left - 1
    /\ ret' = Returned("create_terminal_build", Ok(Nil), NoCalls, FALSE)
    /\ UNCHANGED <<proc, app, file, boot, attempted, last_save, starts_left>>
    /\ UNCHANGED lockVars
    /\ UNCHANGED cryptoVars

\* create_terminal from the second lock on.
CreateTerminalStore(session) ==
    /\ proc = "running"
    /\ session \in creating
    /\ \E r \in create_terminal_store(Machine(app), session) :
          /\ Commit(r.m)
          /\ ret' = Returned("create_terminal", r.res, r.m,
                             PersistedOf(r.m.self) # PersistedOf(app))
    /\ creating' = creating \ {session}
    /\ UNCHANGED <<proc, boot, starts_left, calls_left>>
    /\ UNCHANGED lockVars
    /\ UNCHANGED cryptoVars

WriteToTerminal(id) ==
    Handler("write_to_terminal", write_to_terminal(Machine(app), id))

ResizeTerminal(id) ==
    Handler("resize_terminal", resize_terminal(Machine(app), id, 30, 100))

KillTerminal(id) ==
    Handler("kill_terminal", kill_terminal(Machine(app), id))

Next ==
    \/ \E p \in OptPassphrases : Start(p)
    \/ Exit
    \/ \E t \in OperationTypes : HandleOperationRequest(t)
    \/ HandleChatMessage
    \/ \E id \in OperationIdArgs : HandleApproveOperation(id)
    \/ \E id \in OperationIdArgs : HandleRejectOperation(id)
    \/ HandleClearNotifications
    \/ \E id \in OperationIdArgs : ApproveOperation(id)
    \/ \E id \in OperationIdArgs : RejectOperation(id)
    \/ ClearNotifications
    \/ \E config \in Configs : UpdateAppConfig(config)
    \/ \E shell \in {None, Some("/bin/sh")} : CreateTerminalBuild(shell)
    \/ \E session \in creating : CreateTerminalStore(session)
    \/ \E id \in SessionIdArgs : WriteToTerminal(id)
    \/ \E id \in SessionIdArgs : ResizeTerminal(id)
    \/ \E id \in SessionIdArgs : KillTerminal(id)

Spec == Init /\ [][Next]_vars

(***************************************************************************)
(* HandlerSpec: one run of the process with more handler calls, started on *)
(* no file or on a plaintext file.                                         *)
(***************************************************************************)
HandlerInit ==
    /\ crypto = CryptoManager_new(None)
    /\ call = Idle
    /\ issued = {}
    /\ proc = "stopped"
    /\ app = NoApp
    /\ file \in {Absent, FileOf(SampleJson)}
    /\ creating = {}
    /\ boot = NoBoot
    /\ ret = NoRet
    /\ attempted = PersistedState_default
    /\ last_save = NoSave
    /\ starts_left = 1
    /\ calls_left = MaxHandlerCalls
    /\ lock = NoHolder
    /\ tasks = [t \in Tasks |-> NoTask]

HandlerSpec == HandlerInit /\ [][Next]_vars

(***************************************************************************)
(* LockSpec: handler invocations as tasks that run concurrently on the     *)
(* tokio runtime.  A task waits at state.lock().await, takes the lock,     *)
(* works on the state in memory, writes the file, and drops the guard when *)
(* it returns.  create_terminal does so twice.                             *)
(***************************************************************************)
\* A lock() that each task takes on a mutex of its own.
Mutex_lock_unshared(holder, t) == {t}

\* tokio::sync::Mutex::lock().await for task t: resolves, with t the holder,
\* only when nobody holds the mutex.
Mutex_lock(holder, t) == IF holder = NoHolder THEN {t} ELSE {}

\* A guard whose drop leaves the mutex held.
MutexGuard_drop_forgotten(holder, t) == holder

\* The drop of task t's MutexGuard: the mutex is free.
MutexGuard_drop(holder, t) == NoHolder

Requests ==
    {[op |-> "get_events", arg |-> NoArg],
     [op |-> "handle_chat_message", arg |-> NoArg],
     [op |-> "handle_operation_request", arg |-> [t |-> "type", v |-> "apply_patch"]],
     [op |-> "handle_operation_request", arg |-> [t |-> "type", v |-> "unknown"]],
     [op |-> "approve_operation", arg |-> [t |-> "id", v |-> 1]],
     [op |-> "clear_notifications", arg |-> NoArg],
     [op |-> "update_app_config", arg |-> [t |-> "config", v |-> OtherConfig]],
     [op |-> "create_terminal", arg |-> [t |-> "shell", v |-> None]],
     [op |-> "kill_terminal", arg |-> [t |-> "id", v |-> 1]]}

\* Ids of the sessions built by create_terminal calls that have not stored
\* them yet.
InFlightSessionIds ==
    {tasks[u].arg.v.id : u \in {w \in Tasks : tasks[w].op = "create_terminal_store"}}

\* What a handler does between lock().await and the drop of the guard.
Outcomes(op, arg, m) ==
    CASE op = "get_events" -> {Out(Ok(Nil), m)}
      [] op = "handle_chat_message" -> handle_chat_message(m)
      [] op = "handle_operation_request" -> handle_operation_request(m, arg.v)
      [] op = "approve_operation" -> approve_operation_begin(m, arg.v)
      [] op = "approve_operation_finish" ->
             approve_operation_finish(m, arg.v.id, arg.v.result)
      [] op = "clear_notifications" -> events_clear_notifications(m)
      [] op = "update_app_config" -> update_app_config(m, arg.v)
      [] op = "create_terminal" ->
             {Out(Ok(create_terminal_build(m.self, arg.v,
                         FreshId(SessionIds(m.self) \cup InFlightSessionIds))), m)}
      [] op = "create_terminal_store" -> create_terminal_store(m, arg.v)
      [] op = "kill_terminal" -> kill_terminal(m, arg.v)

\* A request or command arrives: its handler runs up to state.lock().await.
Request(t, rq) ==
    /\ proc = "running"
    /\ calls_left > 0
    /\ tasks[t].pc = "idle"
    /\ tasks' = [tasks EXCEPT ![t] = [pc |-> "waiting", op |-> rq.op,
                                      arg |-> rq.arg, out |-> NoOut]]
    /\ calls_left' = calls_left - 1
    /\ UNCHANGED <<proc, app, file, creating, boot, ret, attempted, last_save,
                   starts_left, lock>>
    /\ UNCHANGED cryptoVars

\* state.lock().await resolves.
Lock(t) ==
    /\ tasks[t].pc = "waiting"
    /\ \E h \in Mutex_lock(lock, t) : lock' = h
    /\ tasks' = [tasks EXCEPT ![t].pc = "locked"]
    /\ UNCHANGED <<proc, app, file, creating, boot, ret, attempted, last_save,
                   starts_left, calls_left>>
    /\ UNCHANGED cryptoVars

\* The handler's reads and mutations of the AppState, key cache included.
Work(t) ==
    /\ tasks[t].pc = "locked"
    /\ \E r \in Outcomes(tasks[t].op, tasks[t].arg, Machine(app)) :
          /\ app' = r.m.self
          /\ tasks' = [tasks EXCEPT
                           ![t].pc = "worked",
                           ![t].out = [res |-> r.res, m |-> r.m,
                                       changed |-> PersistedOf(r.m.self) #
                                                       PersistedOf(app),
                                       added |-> Len(r.m.self.notifications) -
                                                     Len(app.notifications)]]
    /\ UNCHANGED <<proc, file, creating, boot, ret, attempted, last_save,
                   starts_left, calls_left, lock>>
    /\ UNCHANGED cryptoVars

\* The handler's autosaves reach the file.
Write(t) ==
    /\ tasks[t].pc = "worked"
    /\ file' = tasks[t].out.m.file
    /\ attempted' = tasks[t].out.m.attempted
    /\ last_save' = tasks[t].out.m.last_save
    /\ tasks' = [tasks EXCEPT ![t].pc = "written"]
    /\ UNCHANGED <<proc, app, creating, boot, ret, starts_left, calls_left, lock>>
    /\ UNCHANGED cryptoVars

\* approve_operation has set the status "approved" and awaits the simulated
\* execution.
Awaiting(t) ==
    /\ tasks[t].pc = "written"
    /\ tasks[t].op = "approve_operation"
    /\ tasks[t].out.res.ok

\* The simulated execution's sleep is over: approve_operation goes on with
\* the result, its guard held all along.
Await(t) ==
    /\ Awaiting(t)
    /\ tasks' = [tasks EXCEPT ![t] =
                     [pc |-> "locked", op |-> "approve_operation_finish",
                      arg |-> [t |-> "execution",
                               v |-> [id |-> tasks[t].arg.v,
                                      result |-> simulate_operation_execution(
                                                     tasks[t].out.res.val)]],
                      out |-> NoOut]]
    /\ UNCHANGED <<proc, app, file, creating, boot, ret, attempted, last_save,
                   starts_left, calls_left, lock>>
    /\ UNCHANGED cryptoVars

\* The handler returns and its guard is dropped; create_terminal goes on to
\* its second lock().await with the session it built.
Unlock(t) ==
    /\ tasks[t].pc = "written"
    /\ ~Awaiting(t)
    /\ lock' = MutexGuard_drop(lock, t)
    /\ ret' = Returned(tasks[t].op, tasks[t].out.res, tasks[t].out.m,
                       tasks[t].out.changed)
    /\ tasks' = [tasks EXCEPT ![t] =
                     IF tasks[t].op = "create_terminal"
                     THEN [pc |-> "waiting", op |-> "create_terminal_store",
                           arg |-> [t |-> "session", v |-> tasks[t].out.res.val],
                           out |-> NoOut]
                     ELSE NoTask]
    /\ UNCHANGED <<proc, app, file, creating, boot, attempted, last_save,
                   starts_left, calls_left>>
    /\ UNCHANGED cryptoVars

LockInit ==
    /\ crypto = CryptoManager_new(None)
    /\ call = Idle
    /\ issued = {}
    /\ proc = "stopped"
    /\ app = NoApp
    /\ file \in {Absent, FileOf(SampleJson)}
    /\ creating = {}
    /\ boot = NoBoot
    /\ ret = NoRet
    /\ attempted = PersistedState_default
    /\ last_save = NoSave
    /\ starts_left = 1
    /\ calls_left = MaxLockCalls
    /\ lock = NoHolder
    /\ tasks = [t \in Tasks |-> NoTask]

LockNext ==
    \/ \E p \in OptPassphrases : Start(p)
    \/ \E t \in Tasks, rq \in Requests : Request(t, rq)
    \/ \E t \in Tasks : Lock(t)
    \/ \E t \in Tasks : Work(t)
    \/ \E t \in Tasks : Write(t)
    \/ \E t \in Tasks : Await(t)
    \/ \E t \in Tasks : Unlock(t)

LockSpec == LockInit /\ [][LockNext]_vars

\* LockSpec on the tokio runtime: a task that can run is run (its work, its
\* file writes and its return are finite, and the sleep of the simulated
\* execution ends), and the mutex hands the lock to its waiters in the order
\* of their requests, so a waiter is not passed over for ever.
FairLockSpec ==
    /\ LockSpec
    /\ \A t \in Tasks :
          /\ SF_vars(Lock(t))
          /\ WF_vars(Work(t))
          /\ WF_vars(Write(t))
          /\ WF_vars(Await(t))
          /\ WF_vars(Unlock(t))

(***************************************************************************)
(* Claims about the CryptoManager.                                         *)
(***************************************************************************)
\* The envelope is a sealing of payload d under passphrase p: its salt, nonce
\* and ciphertext decode, and the ciphertext is d sealed under the key of
\* (p, salt) and that nonce.
Authentic(env, p, d) ==
    LET s == StdDecode(env.salt)
        n == StdDecode(env.nonce)
        c == StdDecode(env.ciphertext)
    IN /\ s.ok /\ n.ok /\ c.ok
       /\ c.val = Aes256Gcm_encrypt(KdfKey(p, s.val), n.val, d)

\* C1 (as claimed): round trip.  Every encrypt on a manager with a passphrase
\* succeeds, and decrypt of an envelope encrypt returned, by a manager with
\* the same passphrase, returns exactly the payload that was encrypted.
C1_RoundTrip ==
    /\ (call.op = "encrypt" /\ crypto.passphrase.some) => call.res.ok
    /\ \A i \in issued :
          (call.op = "decrypt" /\ call.env = i.env /\ crypto.passphrase = i.pass)
              => call.res = Ok(i.data)

\* C2 (as claimed): tamper detection.  decrypt of an envelope that is not the
\* sealing of any payload under the manager's passphrase returns an error, and
\* decrypt returns a payload only for an envelope that seals that payload.
C2_TamperDetection ==
    (call.op = "decrypt" /\ crypto.passphrase.some) =>
        /\ call.res.ok => Authentic(call.env, crypto.passphrase.v, call.res.val)
        /\ (\A d \in Payloads : ~Authentic(call.env, crypto.passphrase.v, d))
              => IsErrReturn(call.res)

\* C3 (as claimed): with a passphrase configured, decrypt returns the sealed
\* payload or DecryptionFailed, and nothing else.
C3_AllOrNothing ==
    (call.op = "decrypt" /\ crypto.passphrase.some) =>
        \/ call.res.ok /\ Authentic(call.env, crypto.passphrase.v, call.res.val)
        \/ call.res = Err("DecryptionFailed")

\* C4: on a manager without a passphrase every encrypt and every decrypt
\* fails with InvalidPassphrase, and the key cache stays empty.
C4_MissingPassphrase ==
    ~crypto.passphrase.some =>
        /\ call.op \in {"encrypt", "decrypt"} => call.res = Err("InvalidPassphrase")
        /\ DOMAIN crypto.key_cache = {}

\* C4 witness: a decrypt of an envelope with a derivable salt was refused on a
\* manager without a passphrase.
C4_Witness ==
    /\ ~crypto.passphrase.some
    /\ call.op = "decrypt"
    /\ SaltString_from_b64(call.env.salt).ok
    /\ StdDecode(call.env.salt).ok
    /\ call.res = Err("InvalidPassphrase")

(***************************************************************************)
(* Claims about the state store across restarts.                           *)
(***************************************************************************)
\* The warning AppState::new adds when load_state fails.
LoadWarning ==
    [message |-> "Failed to load persisted state", level |-> "warning",
     dismissed |-> FALSE]

\* Nothing but defaults and load warnings is in memory.
NotPopulated ==
    /\ app.config = SidecarConfig_default
    /\ app.pending_operations = << >>
    /\ app.terminal_sessions = NoSessions
    /\ \A i \in DOMAIN app.notifications : app.notifications[i] = LoadWarning

\* The process was just started on a working disk: the latest save_state
\* before the start did not end in an I/O error, and neither did the read of
\* the file at the start.
StartedAfterSave ==
    /\ ret.op = "start"
    /\ boot.saved.called
    /\ boot.saved.res # Err("Io")
    /\ boot.load # Err("Io")

\* C5 (as claimed): wrong passphrase.  A start with passphrase p2 after a save
\* under another passphrase p1 finds load failing with DecryptionFailed, and
\* nothing of the file in memory.
C5_WrongPassphrase ==
    (/\ StartedAfterSave
     /\ boot.saved.pass.some
     /\ boot.pass.some
     /\ boot.pass # boot.saved.pass)
        => /\ boot.load = Err("DecryptionFailed")
           /\ NotPopulated

\* C6 (as claimed): save/reload round trip.  A start with the passphrase of
\* the latest save loads successfully, and the loaded state is the saved one
\* in all four parts.
C6_SaveReloadRoundTrip ==
    (/\ StartedAfterSave
     /\ boot.pass = boot.saved.pass)
        => /\ boot.saved.res.ok
           /\ boot.load.ok
           /\ PersistedOf(app) = boot.saved.state

\* C7 (as claimed): mode mismatch.  A start with encryption enabled after a
\* save with encryption disabled, or the other way round, finds load
\* returning a parse error; the start does not abort and nothing of the file
\* is in memory.
C7_ModeMismatch ==
    (/\ StartedAfterSave
     /\ boot.pass.some # boot.saved.pass.some)
        => /\ boot.load = Err("Serde")
           /\ proc = "running"
           /\ NotPopulated

\* C8: default load.  A start that finds no state file has load_state return
\* Ok, creates no file, and leaves the default configuration (theme "dark",
\* auto_approve_read_ops true, show_notifications true, terminal_shell
\* "/bin/bash", encryption_enabled false) and empty collections in memory.
C8_DefaultLoad ==
    (ret.op = "start" /\ ~boot.file.exists) =>
        /\ proc = "running"
        /\ boot.load = Ok(Nil)
        /\ ~file.exists
        /\ app.config = [theme |-> "dark", auto_approve_read_ops |-> TRUE,
                         show_notifications |-> TRUE,
                         terminal_shell |-> "/bin/bash",
                         encryption_enabled |-> FALSE]
        /\ app.pending_operations = << >>
        /\ app.notifications = << >>
        /\ app.terminal_sessions = NoSessions

\* C8 witness: the process runs after a start that found no file, the second
\* start of the model run included.
C8_Witness ==
    /\ ret.op = "start"
    /\ ~boot.file.exists
    /\ proc = "running"
    /\ boot.saved.called

\* C9 (as claimed): load-failure fallback.  A start whose load_state fails on
\* an existing file still constructs the state: the process runs with the
\* default configuration, no operations, no sessions, and exactly one
\* notification, of level "warning".
C9_LoadFailureFallback ==
    (ret.op = "start" /\ boot.file.exists /\ ~boot.load.ok) =>
        /\ proc = "running"
        /\ app.config = SidecarConfig_default
        /\ app.pending_operations = << >>
        /\ app.terminal_sessions = NoSessions
        /\ Len(app.notifications) = 1
        /\ app.notifications[1].level = "warning"

(***************************************************************************)
(* Claims about the handlers.                                              *)
(***************************************************************************)
\* The number of mutator calls the last handler made: the mutators it calls
\* on the path it took, each of which changes the persisted state.
MutatorCalls ==
    CASE ret.op = "start" -> IF ret.res.ok THEN 0 ELSE 1
      [] ret.op = "handle_operation_request" -> 2
      [] ret.op = "handle_chat_message" -> 1
      [] ret.op \in {"handle_approve_operation", "handle_reject_operation"} ->
             IF ret.res.ok THEN 2 ELSE 0
      [] ret.op = "handle_clear_notifications" -> IF ret.changed THEN 1 ELSE 0
      [] ret.op = "approve_operation" -> IF ret.res.ok THEN 3 ELSE 0
      [] ret.op = "reject_operation" -> IF ret.res.ok THEN 2 ELSE 0
      [] ret.op \in {"clear_notifications", "update_app_config",
                     "create_terminal"} -> 1
      [] ret.op \in {"resize_terminal", "kill_terminal"} ->
             IF ret.res.ok THEN 1 ELSE 0
      [] OTHER -> 0

\* C10: autosave discipline.  Whenever no handler holds the lock, the
\* persisted part of the in-memory state is the one load_state put there or
\* the one handed to the latest save_state call (no handler returned with a
\* change for which save_state was not called afterwards), a handler that
\* changed the state after startup called save_state, and the last handler
\* called save_state once for each mutator call it made.
C10_AutosaveDiscipline ==
    proc = "running" =>
        /\ attempted = PersistedOf(app)
        /\ (ret.op # "start" /\ ret.changed) => ret.saves > 0
        /\ ret.saves = MutatorCalls

\* C10 witness: the front end's approve_operation returned success, the
\* operation's status is final, and the state in memory went to save_state.
C10_Witness ==
    /\ proc = "running"
    /\ ret.op = "approve_operation"
    /\ ret.res.ok
    /\ \E i \in DOMAIN app.pending_operations :
          app.pending_operations[i].status \in {"completed", "failed"}
    /\ ret.changed
    /\ ret.saves = 3
    /\ last_save.called
    /\ last_save.state = PersistedOf(app)

\* C11 (as claimed): no rollback on save failure.  When the latest save_state
\* call of the last handler failed, the state in memory is still the mutated
\* one that was handed to that call, the file has the content it had before
\* the call, and the handler called save_state once per mutator call, not
\* again for the failed one.
C11_NoRollback ==
    (proc = "running" /\ ret.saves > 0 /\ ~last_save.res.ok) =>
        /\ PersistedOf(app) = last_save.state
        /\ last_save.kept
        /\ ret.saves = MutatorCalls

\* C12 (as claimed): save failure is surfaced.  A handler one of whose
\* autosaves failed returns an error to its caller.
C12_SaveFailureSurfaced ==
    (proc = "running" /\ ret.op # "start" /\ ret.failed > 0) =>
        IsErrReturn(ret.res)

(***************************************************************************)
(* Claims about key derivation.                                            *)
(***************************************************************************)
\* C13: cache correctness.  A derivation returns the key it leaves in the
\* cache for the salt; a call whose salt already had a key in the cache runs
\* hash_password zero times, leaves that key in the cache, and (derive_key)
\* returns that very key.
C13_CacheCorrectness ==
    /\ (call.op = "derive_key" /\ call.res.ok) =>
           /\ call.env.salt \in DOMAIN crypto.key_cache
           /\ crypto.key_cache[call.env.salt] = call.res.val
    /\ (call.op \in {"derive_key", "decrypt"} /\ call.cached.some) =>
           /\ crypto.kdf_runs = 0
           /\ call.env.salt \in DOMAIN crypto.key_cache
           /\ crypto.key_cache[call.env.salt] = call.cached.v
           /\ call.op = "derive_key" => call.res = Ok(call.cached.v)

\* C13 witness: derive_key was called for a salt whose key was in the cache.
C13_Witness ==
    /\ call.op = "derive_key"
    /\ call.cached.some
    /\ call.res = Ok(call.cached.v)
    /\ crypto.kdf_runs = 0

\* C14 (as claimed): distinctness.  An encrypt call on a manager with a
\* passphrase, whatever the plaintext and whatever was encrypted before,
\* returns an envelope, and the salt of that envelope is one for which the
\* manager had derived no key before: no earlier call used it, so the key is
\* new and no (key, nonce) pair repeats.
C14_Distinctness ==
    (call.op = "encrypt" /\ crypto.passphrase.some) =>
        /\ call.res.ok
        /\ ~call.cached.some

\* C19: derive requires a passphrase.  On a manager without a passphrase the
\* key cache is empty in every reachable state, and every derive_key call,
\* whatever the salt, returned InvalidPassphrase without calling
\* hash_password.
C19_DeriveRequiresPassphrase ==
    ~crypto.passphrase.some =>
        /\ crypto.key_cache = << >>
        /\ call.op = "derive_key" =>
               /\ call.res = Err("InvalidPassphrase")
               /\ ~call.cached.some
               /\ crypto.kdf_runs = 0

\* C19 witness: derive_key was called without a passphrase on a salt that a
\* manager with a passphrase derives a key for.
C19_Witness ==
    /\ ~crypto.passphrase.some
    /\ call.op = "derive_key"
    /\ call.res = Err("InvalidPassphrase")
    /\ \A r \in derive_key(CryptoManager_new(Some("p1")), call.env.salt) : r.res.ok

\* The salt text does not decode, or decodes to other than SALT_LEN bytes.
MalformedSalt(text) ==
    \/ ~StdDecode(text).ok
    \/ StdDecode(text).val.len # SALT_LEN

\* C20 (as claimed): malformed salt.  derive_key on a manager with a
\* passphrase, for a salt that is not valid base64 or does not decode to 16
\* bytes, returned KeyDerivationFailed and left no cache entry for the salt.
C20_MalformedSalt ==
    (/\ call.op = "derive_key"
     /\ crypto.passphrase.some
     /\ MalformedSalt(call.env.salt))
        => /\ call.res = Err("KeyDerivationFailed")
           /\ call.env.salt \notin DOMAIN crypto.key_cache

\* C17: distinct error kind for structured payloads.  With the decryption
\* step of a decrypt_json call being decrypt on the same envelope: when that
\* step returns a plaintext that does not deserialise, decrypt_json returned
\* SerializationError; when it returns a plaintext at all, decrypt_json did
\* not return DecryptionFailed; when it fails, decrypt_json did not return
\* SerializationError.  And SerializationError is returned only for a
\* ciphertext that is an authentic sealing under the manager's passphrase.
C17_DistinctErrorKind ==
    call.op = "decrypt_json" =>
        /\ \A step \in decrypt(crypto, call.env) :
               /\ (/\ step.res.ok
                   /\ ~serde_json_from(step.res.val, PersistedStateKeys).ok)
                      => call.res = Err("SerializationError")
               /\ step.res.ok => call.res # Err("DecryptionFailed")
               /\ ~step.res.ok => call.res # Err("SerializationError")
        /\ call.res = Err("SerializationError") =>
               LET c == StdDecode(call.env.ciphertext) IN
               /\ crypto.passphrase.some
               /\ c.ok
               /\ c.val.t = "sealed"
               /\ Authentic(call.env, crypto.passphrase.v, c.val.pt)

\* C17 witness: decrypt_json returned SerializationError for an authentic
\* envelope whose plaintext is JSON of another shape.
C17_Witness ==
    /\ call.op = "decrypt_json"
    /\ call.res = Err("SerializationError")
    /\ StdDecode(call.env.ciphertext).val.pt = PartialJson

(***************************************************************************)
(* Claims about what save_state leaves in the file.                        *)
(***************************************************************************)
\* C16: whole-file replacement.  When the latest save_state call of the last
\* handler succeeded, the file exists and its content is exactly one encoding
\* of the complete state in memory, with nothing else in it: with a
\* passphrase an envelope (the three EncryptedData fields) that is an
\* authentic sealing of the JSON of the state, without one that JSON itself;
\* so the state decoded from the file is the state in memory.
C16_WholeFileReplacement ==
    (proc = "running" /\ ret.saves > 0 /\ last_save.res.ok) =>
        LET json == serde_json_to(PersistedStateKeys, PersistedOf(app)) IN
        /\ file.exists
        /\ IF app.crypto.passphrase.some
           THEN /\ file.content.t = "json"
                /\ file.content.keys = EncryptedDataKeys
                /\ Authentic(file.content.doc, app.crypto.passphrase.v, json)
           ELSE /\ file.content = json
                /\ serde_json_from(file.content, PersistedStateKeys) =
                       Ok(PersistedOf(app))

\* C16 witness: a handler made two mutator calls on a state file that held
\* other content, the first save failed, the second succeeded.
C16_Witness ==
    /\ proc = "running"
    /\ ret.saves = 2
    /\ ret.failed = 1
    /\ last_save.res.ok
    /\ boot.file.exists
    /\ file.content = serde_json_to(PersistedStateKeys, PersistedOf(app))
    /\ Len(app.notifications) > 0

\* C18: the encryption mode is fixed by the passphrase alone.  While the
\* process runs, the manager's passphrase is the one the process was started
\* with.  A start that loaded an existing file found an envelope if and only
\* if it has a passphrase; every save_state call took the envelope path if
\* and only if there is a passphrase: without one it can fail on I/O only and,
\* when it succeeds, leaves the plaintext structure, with one it leaves an
\* envelope when it succeeds -- whatever config.encryption_enabled is.
C18_ModeFixedByPassphrase ==
    proc = "running" =>
        /\ app.crypto.passphrase = boot.pass
        /\ is_encryption_enabled(app.crypto) = boot.pass.some
        /\ (ret.op = "start" /\ boot.file.exists /\ boot.load.ok) =>
               /\ boot.file.content.t = "json"
               /\ IF boot.pass.some
                  THEN EncryptedDataKeys \subseteq boot.file.content.keys
                  ELSE PersistedStateKeys \subseteq boot.file.content.keys
        /\ ret.saves > 0 =>
               /\ last_save.pass = boot.pass
               /\ ~boot.pass.some => last_save.res \in {Ok(Nil), Err("Io")}
               /\ last_save.res.ok =>
                      file.content.keys = IF boot.pass.some
                                          THEN EncryptedDataKeys
                                          ELSE PersistedStateKeys

\* C18 witness: without a passphrase, config.encryption_enabled was set to
\* true through update_app_config and the save wrote the plaintext structure.
C18_Witness ==
    /\ proc = "running"
    /\ ~boot.pass.some
    /\ ret.op = "update_app_config"
    /\ ret.res.ok
    /\ app.config.encryption_enabled
    /\ file.content = serde_json_to(PersistedStateKeys, PersistedOf(app))

(***************************************************************************)
(* Claims about concurrent handlers.                                       *)
(***************************************************************************)
\* The tasks between lock().await and the drop of their guard.
Inside == {t \in Tasks : tasks[t].pc \in {"locked", "worked", "written"}}

\* C15: mutual exclusion.  At most one task is between its lock().await and
\* the drop of its guard, and it is the holder of the mutex.  From a task's
\* work on the state to its return, the AppState in memory (key cache
\* included) is as that task left it, and from its write to its return the
\* file and the record of the latest save are as it left them: no other
\* task's read, mutation or save comes in between.
C15_MutualExclusion ==
    /\ Cardinality(Inside) <= 1
    /\ \A t \in Inside : lock = t
    /\ \A t \in Tasks :
          /\ tasks[t].pc \in {"worked", "written"} => app = tasks[t].out.m.self
          /\ tasks[t].pc = "written" =>
                 /\ file = tasks[t].out.m.file
                 /\ last_save = tasks[t].out.m.last_save

\* C15 witness: one task has changed the state in memory and not yet saved,
\* while another waits for the lock.
C15_Witness ==
    \E t \in Tasks, u \in Tasks :
        /\ tasks[t].pc = "worked"
        /\ tasks[t].out.changed
        /\ tasks[t].out.m.saves > 0
        /\ lock = t
        /\ tasks[u].pc = "waiting"

(***************************************************************************)
(* Claims about salts and nonces.                                          *)
(***************************************************************************)
\* The salts encrypt can generate: SALT_LEN bytes from OsRng, encoded.
OwnSaltTexts == {StdEncode(b) : b \in OsRng_bytes(SALT_LEN)}

\* C21 (as claimed): self-generated salts are accepted.  With a passphrase,
\* derive_key on a salt string that encrypt can generate returns a key, and no
\* encrypt call returns KeyDerivationFailed.
C21_OwnSaltsAccepted ==
    crypto.passphrase.some =>
        /\ (call.op = "derive_key" /\ call.env.salt \in OwnSaltTexts) =>
               call.res.ok
        /\ call.op = "encrypt" => call.res # Err("KeyDerivationFailed")

\* C22 (as claimed): a bad nonce length is an error, not an abort.  No decrypt
\* call panics; and with a passphrase, a salt that derive_key accepts and a
\* nonce that decodes to other than NONCE_LEN bytes, decrypt returned
\* DecryptionFailed.
C22_BadNonceLength ==
    call.op = "decrypt" =>
        /\ call.res # Panic
        /\ (/\ crypto.passphrase.some
            /\ \A r \in derive_key(crypto, call.env.salt) : r.res.ok
            /\ StdDecode(call.env.nonce).ok
            /\ StdDecode(call.env.nonce).val.len # NONCE_LEN)
               => call.res = Err("DecryptionFailed")

(***************************************************************************)
(* Claims about the key cache.                                             *)
(***************************************************************************)
\* A step in which the manager (with a passphrase) runs encrypt.
EncryptStep == call = Idle /\ call'.op = "encrypt" /\ crypto.passphrase.some

\* C23 (as claimed): one fresh derivation per encryption.  Every encrypt of a
\* manager with a passphrase succeeds with a salt the cache did not hold, runs
\* the key derivation exactly once, adds exactly the entry of the returned
\* envelope's salt, and a decrypt of that envelope by the same manager then
\* runs no derivation.
C23_OneFreshDerivation ==
    [][EncryptStep =>
          /\ call'.res.ok
          /\ call'.res.val.salt \notin DOMAIN crypto.key_cache
          /\ crypto'.kdf_runs = 1
          /\ DOMAIN crypto'.key_cache =
                 (DOMAIN crypto.key_cache) \cup {call'.res.val.salt}
          /\ \A r \in decrypt(crypto', call'.res.val) :
                 r.self.kdf_runs = crypto'.kdf_runs]_vars

\* Every entry of the cache is the KEY_LEN-byte key derived from its salt
\* under the manager's passphrase.
CacheSound ==
    \A s \in DOMAIN crypto.key_cache :
        /\ crypto.passphrase.some
        /\ StdDecode(s).ok
        /\ crypto.key_cache[s] = KdfKey(crypto.passphrase.v, StdDecode(s).val)
        /\ crypto.key_cache[s].len = KEY_LEN

\* A step of one manager: every step but CryptoManager::new.
SameManager == call # Idle \/ call' # Idle

\* C24: the key cache invariant.  In every reachable state each cache entry is
\* the 32-byte key derived from its salt under the manager's passphrase; and no
\* step of a manager changes its passphrase or removes or overwrites an entry
\* of its cache.
C24_KeyCacheInvariant ==
    /\ []CacheSound
    /\ [][SameManager =>
             /\ crypto'.passphrase = crypto.passphrase
             /\ \A s \in DOMAIN crypto.key_cache :
                    /\ s \in DOMAIN crypto'.key_cache
                    /\ crypto'.key_cache[s] = crypto.key_cache[s]]_vars

\* The cache holds two keys, the second added by the call just made.
C24_Witness ==
    /\ call.op \in {"derive_key", "decrypt", "decrypt_json"}
    /\ ~call.cached.some
    /\ call.env.salt \in DOMAIN crypto.key_cache
    /\ Cardinality(DOMAIN crypto.key_cache) = 2

(***************************************************************************)
(* Claims about a start whose load fails.                                  *)
(***************************************************************************)
\* C25: a failed load is atomic on memory.  After a start whose load_state
\* failed at whatever stage, load_state had returned once, and on its return
\* config, pending_operations, notifications and terminal_sessions were the
\* defaults they were before it and the state file was the one it found.
C25_FailedLoadAtomic ==
    ~boot.load.ok =>
        boot.loaded = [calls |-> 1, state |-> PersistedState_default,
                       file |-> boot.file]

\* C25 witness: a start on an envelope that does not decrypt under the
\* passphrase of the process.
C25_Witness ==
    /\ ret.op = "start"
    /\ boot.pass.some
    /\ boot.load = Err("DecryptionFailed")
    /\ boot.loaded.calls = 1

\* The default state with the load warning added.
DefaultWithWarning ==
    [PersistedState_default EXCEPT !.notifications = <<LoadWarning>>]

\* C26: a start after an unreadable file replaces it.  When AppState::new has
\* returned after a failed load of an existing file, save_state has run once,
\* on the default state plus the warning; and if it succeeded the file holds
\* that state and nothing of what was found: the write changed the file unless
\* it already was this very document, and a load of it gives the default
\* state plus the warning whenever the disk can be read.
C26_UnreadableFileReplaced ==
    (ret.op = "start" /\ proc = "running" /\ boot.file.exists /\ ~boot.load.ok) =>
        /\ ret.saves = 1
        /\ last_save.called
        /\ last_save.state = DefaultWithWarning
        /\ PersistedOf(app) = DefaultWithWarning
        /\ last_save.res.ok =>
               /\ file.exists
               /\ last_save.kept <=> file = boot.file
               /\ file = boot.file =>
                      boot.file.content =
                          serde_json_to(PersistedStateKeys, DefaultWithWarning)
               /\ \A l \in load_state(Machine(AppState_fields(boot.pass))) :
                      /\ l.res \in {Ok(Nil), Err("Io")}
                      /\ l.res.ok => PersistedOf(l.m.self) = DefaultWithWarning

\* C26 witness: a start without a passphrase on a file holding an envelope,
\* whose warning was saved.
C26_Witness ==
    /\ ret.op = "start"
    /\ proc = "running"
    /\ ~boot.pass.some
    /\ boot.file.exists
    /\ boot.file.content.t = "json"
    /\ EncryptedDataKeys \subseteq boot.file.content.keys
    /\ boot.load = Err("Serde")
    /\ last_save.res.ok
    /\ ~last_save.kept
    /\ file = FileOf(serde_json_to(PersistedStateKeys, DefaultWithWarning))

(***************************************************************************)
(* Claims about handlers that interleave.                                  *)
(***************************************************************************)
\* C27 (as claimed): create_terminal is one logical operation.  Requests give
\* create_terminal no explicit shell; when a task has inserted its session
\* record, the record's shell is config.terminal_shell as it is in the state
\* the record was inserted into.
C27_CreateTerminalAtomic ==
    \A t \in Tasks :
        (tasks[t].op = "create_terminal_store" /\
         tasks[t].pc \in {"worked", "written"}) =>
            tasks[t].arg.v.shell = tasks[t].out.m.self.config.terminal_shell

\* When no task is between lock().await and the drop of its guard the mutex
\* is free, and no task waits for a lock it holds.
LockReleased ==
    /\ Inside = {} => lock = NoHolder
    /\ \A t \in Tasks : tasks[t].pc = "waiting" => lock # t

\* C28: no deadlock and eventual progress.  Every handler has released the
\* lock when it has returned, on error returns too, and waits for the lock
\* only when it does not hold it; under the fair scheduling of FairLockSpec
\* every task that has entered a handler completes it: it acquires the lock
\* each time it waits for it, the hold across the simulated execution ends,
\* and the handler returns.
C28_NoDeadlockProgress ==
    /\ []LockReleased
    /\ \A t \in Tasks : (tasks[t].pc # "idle") ~> (tasks[t].pc = "idle")

\* C28 witness: a task waits for the lock that approve_operation holds across
\* the simulated execution.
C28_Witness ==
    \E t \in Tasks, u \in Tasks :
        /\ Awaiting(t)
        /\ lock = t
        /\ tasks[u].pc = "waiting"

\* The tasks other than t that are between lock().await and guard drop.
OthersInside(t) == Inside \ {t}

\* C30: front-end approval ends in a final status.  While approve_operation
\* holds the status at "approved" (from its first update, across the await, to
\* its second update) it has added no notification and no other task is
\* inside a handler to see it; when it is about to return success the status
\* is the "completed" or "failed" of its response, it has added exactly one
\* notification, and still no other task has been inside.
C30_ApprovalEndsFinal ==
    \A t \in Tasks :
        /\ (tasks[t].op = "approve_operation" /\
            tasks[t].pc \in {"worked", "written"} /\ tasks[t].out.res.ok) =>
               /\ OperationById(app, tasks[t].arg.v).status = "approved"
               /\ tasks[t].out.added = 0
               /\ OthersInside(t) = {}
        /\ (tasks[t].op = "approve_operation_finish" /\ tasks[t].pc = "locked") =>
               /\ OperationById(app, tasks[t].arg.v.id).status = "approved"
               /\ OthersInside(t) = {}
        /\ (tasks[t].op = "approve_operation_finish" /\
            tasks[t].pc \in {"worked", "written"} /\ tasks[t].out.res.ok) =>
               /\ OperationById(app, tasks[t].arg.v.id).status =
                      tasks[t].out.res.val.status
               /\ tasks[t].out.res.val.status \in {"completed", "failed"}
               /\ tasks[t].out.added = 1
               /\ OthersInside(t) = {}

\* C30 witness: approve_operation is about to return success for an operation
\* whose execution failed, its notification saved.
C30_Witness ==
    \E t \in Tasks :
        /\ tasks[t].op = "approve_operation_finish"
        /\ tasks[t].pc = "written"
        /\ tasks[t].out.res = Ok([t |-> "status", status |-> "failed"])
        /\ last_save.res.ok
        /\ Len(app.notifications) > 0

(***************************************************************************)
(* Claims about operation ids.                                             *)
(***************************************************************************)
\* Ids that match no operation of the list.
UnknownOperationIds == (0..(MaxOps + 1)) \ OperationIds(app)

\* The handlers built on update_operation_status.
StatusHandlers ==
    {"approve_operation", "reject_operation",
     "handle_approve_operation", "handle_reject_operation"}

\* C29: unknown operation id.  In every state of the running process,
\* update_operation_status and the approve and reject handlers, called with an
\* id that matches no operation, return the error "Operation not found" (the
\* HTTP handlers as a NOT_FOUND response) and leave the state in memory, the
\* file and the count and record of saves as they were; and every error
\* return of these handlers is of this kind: nothing changed, nothing saved.
C29_UnknownOperationId ==
    proc = "running" =>
        /\ \A id \in UnknownOperationIds :
              /\ update_operation_status(Machine(app), id, "approved") =
                     {Out(Err("Operation not found"), Machine(app))}
              /\ approve_operation(Machine(app), id) =
                     {Out(Err("Operation not found"), Machine(app))}
              /\ reject_operation(Machine(app), id) =
                     {Out(Err("Operation not found"), Machine(app))}
              /\ handle_approve_operation(Machine(app), id) =
                     {Out(Err("NOT_FOUND"), Machine(app))}
              /\ handle_reject_operation(Machine(app), id) =
                     {Out(Err("NOT_FOUND"), Machine(app))}
        /\ (ret.op \in StatusHandlers /\ ~ret.res.ok) =>
              /\ ret.res \in {Err("Operation not found"), Err("NOT_FOUND")}
              /\ ~ret.changed
              /\ ret.saves = 0
              /\ ret.failed = 0

\* C29 witness: reject_operation returned "Operation not found" while the
\* list holds an operation, with another id.
C29_Witness ==
    /\ proc = "running"
    /\ ret.op = "reject_operation"
    /\ ret.res = Err("Operation not found")
    /\ Len(app.pending_operations) > 0
    /\ UnknownOperationIds # {}

(***************************************************************************)
(* Claims about the life of operations and sessions.                       *)
(***************************************************************************)
\* Every outcome of the handler call is a success that leaves the operation
\* with one of the statuses.
Sets(outcomes, id, statuses) ==
    \A r \in outcomes :
        /\ r.res.ok
        /\ OperationById(r.m.self, id).status \in statuses

\* Approve and reject, HTTP and front-end, succeed on the operation and set
\* their status, whatever the operation's status is.
Unguarded(id) ==
    /\ Sets(handle_approve_operation(Machine(app), id), id, {"approved"})
    /\ Sets(handle_reject_operation(Machine(app), id), id, {"rejected"})
    /\ Sets(reject_operation(Machine(app), id), id, {"rejected"})
    /\ Sets(approve_operation(Machine(app), id), id,
            {IF simulate_operation_execution(OperationById(app, id)).success
             THEN "completed" ELSE "failed"})

\* A step of the running process: one handler.
HandlerStep == proc = "running" /\ proc' = "running"

\* C31: status changes are unguarded.  In every state of the running process
\* and for every operation of the list, whatever its status, approve and
\* reject (HTTP and front-end) succeed and overwrite the status; and no
\* handler removes an operation from the list or changes its id or type.
C31_StatusUnguarded ==
    /\ [](proc = "running" => \A id \in OperationIds(app) : Unguarded(id))
    /\ [][HandlerStep =>
             \A i \in DOMAIN app.pending_operations :
                 /\ i \in DOMAIN app'.pending_operations
                 /\ app'.pending_operations[i].id = app.pending_operations[i].id
                 /\ app'.pending_operations[i].operation_type =
                        app.pending_operations[i].operation_type]_vars

\* C31 witness: the HTTP approve has just succeeded on the operation that the
\* front-end reject had rejected: the notifications of the two follow each
\* other, and the status is "approved".
C31_Witness ==
    /\ proc = "running"
    /\ ret.op = "handle_approve_operation"
    /\ ret.res.ok
    /\ Len(app.pending_operations) = 1
    /\ app.pending_operations[1].status = "approved"
    /\ \E i \in DOMAIN app.notifications :
          /\ i + 1 \in DOMAIN app.notifications
          /\ app.notifications[i].message = "Operation rejected by user"
          /\ app.notifications[i + 1].message = "Operation approved"

\* write_to_terminal on a session that is unknown or inactive returns an
\* error and leaves everything as it was.
WriteRefused ==
    \A id \in 0..(MaxSessions + 1) :
        (id \notin SessionIds(app) \/ ~app.terminal_sessions[id].active) =>
            \A r \in write_to_terminal(Machine(app), id) :
                /\ ~r.res.ok
                /\ r.m = Machine(app)

\* What one command does to the session records: none is removed, an
\* inactive one stays inactive, a new one is active, and a kill_terminal
\* that succeeded has set one record inactive and changed nothing else.
SessionsStep ==
    /\ \A id \in SessionIds(app) :
          /\ id \in SessionIds(app')
          /\ ~app.terminal_sessions[id].active =>
                 ~app'.terminal_sessions[id].active
    /\ \A id \in SessionIds(app') \ SessionIds(app) :
          app'.terminal_sessions[id].active
    /\ (ret'.op = "kill_terminal" /\ ret'.res.ok) =>
          \E id \in SessionIds(app) :
              app'.terminal_sessions =
                  [app.terminal_sessions EXCEPT ![id].active = FALSE]

\* C32: terminal-session lifecycle.  In the running process, under every
\* sequence of create, write, resize and kill commands (and of the other
\* handlers): a session record is created active; kill_terminal sets it
\* inactive and keeps it; an inactive session stays inactive; no record is
\* removed; and write_to_terminal on an inactive or unknown session returns
\* an error.
C32_SessionLifecycle ==
    /\ [](proc = "running" => WriteRefused)
    /\ [][HandlerStep => SessionsStep]_vars

\* C32 witness: a second session has been created, active, after the first
\* was killed, and the first is still there, inactive.
C32_Witness ==
    /\ proc = "running"
    /\ ret.op = "create_terminal"
    /\ ret.res.ok
    /\ \E id \in SessionIds(app), other \in SessionIds(app) :
          /\ id = ret.res.val.id
          /\ app.terminal_sessions[id].active
          /\ ~app.terminal_sessions[other].active

====
